---- MODULE Spec2Model ----
(***************************************************************************)
(* EnviRon: the classification-and-reward pipeline.                        *)
(*                                                                         *)
(*   - classifyWasteType   (label sequence -> waste category)              *)
(*   - withRetry           (timeout race, linear backoff, retry loop)      *)
(*   - updateUserProgress  (event insert, read-modify-write of points and  *)
(*                          badges, badge notification)                    *)
(*   - the classification endpoint (request validation, label detection,  *)
(*                          findNearbyLocations, the answer)               *)
(*   - the WasteClassifier component (handleImageChange, handleClassify)   *)
(*                                                                         *)
(* Each part has its own specification (SpecTaxonomy, SpecRetry,           *)
(* SpecLedger, SpecServer, SpecUi); the variables of the parts a           *)
(* specification does not run stay at their initial values.                *)
(***************************************************************************)
EXTENDS Integers, Sequences, FiniteSets, TLC

VARIABLES
    \* ---- classifyWasteType -------------------------------------------
    labels,         \* the argument: a sequence of label strings
    wasteType,      \* the value returned ("" until the call has returned)
    txPc,           \* "call" before the call, "done" after it returned
    \* ---- withRetry ---------------------------------------------------
    maxRetries,     \* options.maxRetries
    delayMs,        \* options.delayMs
    timeoutMs,      \* options.timeoutMs
    loopI,          \* the loop variable i (0-based attempt index)
    lastError,      \* the error caught last
    rPc,            \* "init", "race" (awaiting Promise.race), "backoff"
                    \* (awaiting the delay), "returned", "thrown"
    now,            \* the clock
    timers,         \* pending timeout timers: [attempt, due]
    backoffDue,     \* when the pending backoff timer fires
    fnRunning,      \* attempts whose fn() invocation has not settled
    fnCalls,        \* number of times fn was invoked
    attemptLog,     \* per attempt: start, end, outcome, error
    warnings,       \* the console.warn calls, in order
    waits,          \* the backoff waits, in order
    rResult,        \* the value returned / the error thrown
    settledAt,      \* when withRetry returned or threw
    \* ---- updateUserProgress -------------------------------------------
    initPoints,     \* users.points before the first call
    initBadges,     \* users.badges before the first call
    dbPoints,       \* users.points of the user (<<>> is null, <<n>> is n)
    dbBadges,       \* users.badges of the user (<<>> is null, <<array>>)
    classifications,\* the rows of the classifications table, in insert order
    uPc,            \* per client: "idle", or the store operation awaited:
                    \* "insert", "select", "update"
    wasteTypeArg,   \* per client: the argument wasteType ("" outside a call)
    isRecyclable,   \* per client: the local isRecyclable
    newPoints,      \* per client: the local newPoints
    badges,         \* per client: the local badges
    badgeNotification, \* per client: the component state ("" is null)
    uBefore,        \* per client: stored points when the call started
    uFlagged,       \* per client: the call set the badge notification
    flagCount,      \* number of setBadgeNotification('Eco-Warrior') calls
    storeFailed,    \* some store operation has failed
    overlapped,     \* some call started while another was in progress
    lastCall,       \* the call that finished last
    callsStarted,   \* number of calls started
    \* ---- the classification endpoint ---------------------------------
    endpoint,       \* the handler that serves the request
    req,            \* the request: method, body members, Authorization
    visionDescriptions, \* what label detection yields for the image
    sPc,            \* "received", "vision" (awaiting labelDetection),
                    \* "places" (awaiting placesNearby), "done"
    sLabels,        \* the local labels of the handler
    sWasteType,     \* the local wasteType of the handler
    placesQuery,    \* the params handed to placesNearby
    placesResponse, \* what placesNearby settled with
    resStatus,      \* the status of the answer (0 until it is sent)
    resBody,        \* the body of the answer
    \* ---- the WasteClassifier component -------------------------------
    image,          \* state image: the name of the file ("" is null)
    imagePreview,   \* state imagePreview ("" is null)
    result,         \* state result (NoResult is null)
    resultOf,       \* the image the result was computed for ("" if none)
    error,          \* state error
    loading,        \* state loading
    flights,        \* the invocations of handleClassify that have not
                    \* finished: id, awaited operation, captured image
    fetchCalls,     \* number of fetch calls issued
    classifyStarted \* number of invocations that passed the image check

taxVars == <<labels, wasteType, txPc>>

retryVars == <<maxRetries, delayMs, timeoutMs, loopI, lastError, rPc, now, timers,
               backoffDue, fnRunning, fnCalls, attemptLog, warnings, waits,
               rResult, settledAt>>

ledgerVars == <<initPoints, initBadges, dbPoints, dbBadges, classifications,
                uPc, wasteTypeArg, isRecyclable, newPoints, badges,
                badgeNotification, uBefore, uFlagged, flagCount, storeFailed,
                overlapped, lastCall, callsStarted>>

serverVars == <<endpoint, req, visionDescriptions, sPc, sLabels, sWasteType,
                placesQuery, placesResponse, resStatus, resBody>>

uiVars == <<image, imagePreview, result, resultOf, error, loading, flights,
            fetchCalls, classifyStarted>>

vars == <<taxVars, retryVars, ledgerVars, serverVars, uiVars>>

(***************************************************************************)
(* Bounds of the model.                                                    *)
(***************************************************************************)
MaxLabels == 2          \* longest label sequence handed to classifyWasteType
MaxRetriesBound == 3    \* largest options.maxRetries tried
MaxDelayMs == 2         \* largest options.delayMs tried (clock units)
MaxTimeoutMs == 2       \* largest options.timeoutMs tried (clock units)
MaxTime == 12           \* the clock stops here
NumClients == 2         \* component instances signed in as the same user
MaxCalls == 2           \* updateUserProgress calls started in one run
MaxPlaces == 4          \* most results of one places query

(***************************************************************************)
(* JavaScript helpers.                                                     *)
(***************************************************************************)
\* String.prototype.includes: key occurs in s as a contiguous substring.
includes(s, key) ==
    \E i \in 1..(Len(s) - Len(key) + 1) : SubSeq(s, i, i + Len(key) - 1) = key

\* Array.prototype.some over an array of keywords, with the predicate
\* key => s.includes(key).
someIncluded(keys, s) == \E j \in DOMAIN keys : includes(s, keys[j])

(***************************************************************************)
(* classifyWasteType (unnamed/part_002, 23-39).                            *)
(***************************************************************************)
recyclable == <<"plastic bottle", "bottle", "can", "paper", "plastic", "glass", "metal">>
hazardous  == <<"battery", "electronics", "chemical", "paint">>
donatable  == <<"clothes", "furniture", "book">>
organic    == <<"food", "organic">>

\* [...recyclable, ...hazardous, ...donatable, ...organic]
allKeywords == recyclable \o hazardous \o donatable \o organic

\* Variant of matchedLabel: the last matching element instead of the first.
matchedLabelLast(ls) ==
    LET hits == {i \in DOMAIN ls : someIncluded(allKeywords, ls[i])}
    IN  IF hits = {}
        THEN [found |-> FALSE, value |-> ""]
        ELSE [found |-> TRUE,
              value |-> ls[CHOOSE i \in hits : \A j \in hits : j <= i]]

\* labels.find(label => allKeywords.some(key => label.includes(key))):
\* the first element, in index order, that satisfies the predicate;
\* undefined (found = FALSE) when there is none.
matchedLabel(ls) ==
    LET hits == {i \in DOMAIN ls : someIncluded(allKeywords, ls[i])}
    IN  IF hits = {}
        THEN [found |-> FALSE, value |-> ""]
        ELSE [found |-> TRUE,
              value |-> ls[CHOOSE i \in hits : \A j \in hits : i <= j]]

\* Variant of categoryOf: the tests in another order.
categoryOfHazardousFirst(m) ==
    IF someIncluded(hazardous, m) THEN "Hazardous"
    ELSE IF someIncluded(recyclable, m) THEN "Recyclable"
    ELSE IF someIncluded(organic, m) THEN "Organic"
    ELSE IF someIncluded(donatable, m) THEN "Donatable"
    ELSE "General Waste"

\* The chain of returns once a truthy matchedLabel is known (lines 34-38).
categoryOf(m) ==
    IF someIncluded(recyclable, m) THEN "Recyclable"
    ELSE IF someIncluded(hazardous, m) THEN "Hazardous"
    ELSE IF someIncluded(donatable, m) THEN "Donatable"
    ELSE IF someIncluded(organic, m) THEN "Organic"
    ELSE "General Waste"

\* Variant of noMatchResult: a value outside the five categories.
noMatchResultMissing(m) == "Unclassified"

\* return 'General Waste' (line 33)
noMatchResult(m) == "General Waste"

\* if (!matchedLabel): undefined and the empty string are both falsy.
classifyWasteType(ls) ==
    LET m == matchedLabel(ls)
    IN  IF ~m.found \/ m.value = "" THEN noMatchResult(m) ELSE categoryOf(m.value)

(***************************************************************************)
(* The inputs classifyWasteType is applied to.                             *)
(***************************************************************************)
\* Labels with no keyword, with keywords of one set, and with keywords of
\* each pair of sets.
Vocabulary ==
    { "", "unknown object", "Plastic Bottle", "canned",
      "plastic bottle", "battery", "furniture", "food",
      "battery can", "paper book", "food can",
      "paint book", "organic chemical", "food book" }

RECURSIVE SeqsUpTo(_, _)
SeqsUpTo(S, n) ==
    IF n = 0 THEN {<<>>}
    ELSE LET shorter == SeqsUpTo(S, n - 1)
         IN  shorter \cup {Append(s, x) : s \in {t \in shorter : Len(t) = n - 1}, x \in S}

TaxInit ==
    /\ labels \in SeqsUpTo(Vocabulary, MaxLabels)
    /\ wasteType = ""
    /\ txPc = "call"

\* No classification requested.
TaxIdle ==
    /\ labels = <<>>
    /\ wasteType = ""
    /\ txPc = "idle"

\* const wasteType = classifyWasteType(labels)
Classify ==
    /\ txPc = "call"
    /\ wasteType' = classifyWasteType(labels)
    /\ txPc' = "done"
    /\ UNCHANGED <<labels, retryVars, ledgerVars, serverVars, uiVars>>

TaxNext == Classify

(***************************************************************************)
(* updateUserProgress (src/components/WasteClassifier.jsx, 143-188).       *)
(*                                                                         *)
(* Each client is a mounted WasteClassifier of the same user.  A call      *)
(* suspends at its three store operations; the store performs each         *)
(* operation atomically, and the code between two awaits runs as one step. *)
(***************************************************************************)
Clients == 1..NumClients

\* What callers pass as wasteType: the categories of classifyWasteType and
\* the lower-case spelling of the stub endpoint (api/classify-waste.js, 49).
WasteTypes == {"Recyclable", "recyclable", "General Waste"}

upperCase == "ABCDEFGHIJKLMNOPQRSTUVWXYZ"
lowerCase == "abcdefghijklmnopqrstuvwxyz"

lowerChar(ch) ==
    IF \E k \in 1..Len(upperCase) : SubSeq(upperCase, k, k) = ch
    THEN LET k == CHOOSE n \in 1..Len(upperCase) : SubSeq(upperCase, n, n) = ch
         IN  SubSeq(lowerCase, k, k)
    ELSE ch

\* The characters of s from position k on, in lower case.
RECURSIVE lowerFrom(_, _)
lowerFrom(s, k) ==
    IF k > Len(s) THEN ""
    ELSE lowerChar(SubSeq(s, k, k)) \o lowerFrom(s, k + 1)

\* String.prototype.toLowerCase
toLowerCase(s) == lowerFrom(s, 1)

\* A nullable column: <<>> is null, <<v>> holds v.  orDefault(col, d) is
\* `col || d` for the values these columns take.
orDefault(col, d) == IF col = <<>> THEN d ELSE col[1]

\* Array.prototype.includes
arrayIncludes(arr, x) == \E k \in DOMAIN arr : arr[k] = x

\* wasteType.toLowerCase() === 'recyclable'
isRecyclableOf(wt) == toLowerCase(wt) = "recyclable"

\* Variant of pointsAward: the two awards swapped.
pointsAwardSwapped(rec) == IF rec THEN 5 ELSE 20

\* isRecyclable ? 20 : 5
pointsAward(rec) == IF rec THEN 20 ELSE 5

\* isRecyclable && !badges.includes('Eco-Warrior')
earnsBadge(rec, arr) == rec /\ ~arrayIncludes(arr, "Eco-Warrior")

\* The row handed to .insert (lines 149-154).
classificationRow(wt) ==
    [item   |-> wt,
     result |-> IF isRecyclableOf(wt) THEN "Recyclable" ELSE "Non-Recyclable",
     weight |-> IF isRecyclableOf(wt) THEN "0.1" ELSE "0"]

\* No call has finished yet.
NoCall ==
    [isRecyclable |-> FALSE, before |-> 0, after |-> 0, flagged |-> FALSE,
     hasBadge |-> FALSE, error |-> ""]

LedgerIdle ==
    /\ initPoints = <<>>
    /\ initBadges = <<>>
    /\ dbPoints = <<>>
    /\ dbBadges = <<>>
    /\ classifications = <<>>
    /\ uPc = [p \in Clients |-> "idle"]
    /\ wasteTypeArg = [p \in Clients |-> ""]
    /\ isRecyclable = [p \in Clients |-> FALSE]
    /\ newPoints = [p \in Clients |-> 0]
    /\ badges = [p \in Clients |-> <<>>]
    /\ badgeNotification = [p \in Clients |-> ""]
    /\ uBefore = [p \in Clients |-> 0]
    /\ uFlagged = [p \in Clients |-> FALSE]
    /\ flagCount = 0
    /\ storeFailed = FALSE
    /\ overlapped = FALSE
    /\ lastCall = NoCall
    /\ callsStarted = 0

\* The user's row as the account has it before any call of the run.
LedgerInit ==
    /\ initPoints \in {<<>>, <<10>>}
    /\ initBadges \in {<<>>, << <<"Starter">> >>, << <<"Eco-Warrior">> >>}
    /\ dbPoints = initPoints
    /\ dbBadges = initBadges
    /\ classifications = <<>>
    /\ uPc = [p \in Clients |-> "idle"]
    /\ wasteTypeArg = [p \in Clients |-> ""]
    /\ isRecyclable = [p \in Clients |-> FALSE]
    /\ newPoints = [p \in Clients |-> 0]
    /\ badges = [p \in Clients |-> <<>>]
    /\ badgeNotification = [p \in Clients |-> ""]
    /\ uBefore = [p \in Clients |-> 0]
    /\ uFlagged = [p \in Clients |-> FALSE]
    /\ flagCount = 0
    /\ storeFailed = FALSE
    /\ overlapped = FALSE
    /\ lastCall = NoCall
    /\ callsStarted = 0

\* The record of a call of client p that ends now, with the stored row as
\* the call leaves it; msg is the message of the error thrown ("" if none).
Finished(p, msg, pointsCol, badgesCol) ==
    [isRecyclable |-> isRecyclable[p],
     before       |-> uBefore[p],
     after        |-> orDefault(pointsCol, 0),
     flagged      |-> uFlagged[p],
     hasBadge     |-> arrayIncludes(orDefault(badgesCol, <<>>), "Eco-Warrior"),
     error        |-> msg]

\* The call of client p is over: its locals are gone.
Return(p) ==
    /\ uPc' = [uPc EXCEPT ![p] = "idle"]
    /\ wasteTypeArg' = [wasteTypeArg EXCEPT ![p] = ""]
    /\ isRecyclable' = [isRecyclable EXCEPT ![p] = FALSE]
    /\ newPoints' = [newPoints EXCEPT ![p] = 0]
    /\ badges' = [badges EXCEPT ![p] = <<>>]
    /\ uBefore' = [uBefore EXCEPT ![p] = 0]
    /\ uFlagged' = [uFlagged EXCEPT ![p] = FALSE]

\* throw new Error(msg): the call of client p ends; the stored row is as the
\* store has it.
Throw(p, msg) ==
    /\ Return(p)
    /\ storeFailed' = TRUE
    /\ lastCall' = Finished(p, msg, dbPoints, dbBadges)
    /\ UNCHANGED <<taxVars, retryVars, serverVars,
                   initPoints, initBadges, dbPoints, dbBadges,
                   classifications, badgeNotification, flagCount, overlapped,
                   callsStarted>>

\* updateUserProgress(userId, wasteType) is called: lines 144-154, up to
\* the await of the insert.
UpdateStarts(p, wt) ==
    /\ uPc[p] = "idle"
    /\ callsStarted < MaxCalls
    /\ callsStarted' = callsStarted + 1
    /\ wasteTypeArg' = [wasteTypeArg EXCEPT ![p] = wt]
    /\ isRecyclable' = [isRecyclable EXCEPT ![p] = isRecyclableOf(wt)]
    /\ uPc' = [uPc EXCEPT ![p] = "insert"]
    /\ uBefore' = [uBefore EXCEPT ![p] = orDefault(dbPoints, 0)]
    /\ overlapped' = (overlapped \/ \E q \in Clients \ {p} : uPc[q] # "idle")
    /\ UNCHANGED <<taxVars, retryVars, serverVars,
                   initPoints, initBadges, dbPoints, dbBadges,
                   classifications, newPoints, badges, badgeNotification,
                   uFlagged, flagCount, storeFailed, lastCall>>

\* The insert succeeded: the row is in the table; the select is issued.
InsertResolves(p) ==
    /\ uPc[p] = "insert"
    /\ classifications' = Append(classifications, classificationRow(wasteTypeArg[p]))
    /\ uPc' = [uPc EXCEPT ![p] = "select"]
    /\ UNCHANGED <<taxVars, retryVars, serverVars,
                   initPoints, initBadges, dbPoints, dbBadges,
                   wasteTypeArg, isRecyclable, newPoints, badges,
                   badgeNotification, uBefore, uFlagged, flagCount, storeFailed,
                   overlapped, lastCall, callsStarted>>

\* The insert failed (updateError): 'Failed to save classification'.
InsertRejects(p) ==
    /\ uPc[p] = "insert"
    /\ Throw(p, "Failed to save classification")

\* The select returned the user's row: lines 171-183, up to the await of
\* the update.
SelectResolves(p) ==
    /\ uPc[p] = "select"
    /\ LET read   == orDefault(dbBadges, <<>>)
           earned == earnsBadge(isRecyclable[p], read)
       IN  /\ newPoints' = [newPoints EXCEPT
                 ![p] = orDefault(dbPoints, 0) + pointsAward(isRecyclable[p])]
           /\ badges' = [badges EXCEPT
                 ![p] = IF earned THEN Append(read, "Eco-Warrior") ELSE read]
           /\ badgeNotification' = [badgeNotification EXCEPT
                 ![p] = IF earned THEN "Eco-Warrior" ELSE @]
           /\ uFlagged' = [uFlagged EXCEPT ![p] = earned]
           /\ flagCount' = IF earned THEN flagCount + 1 ELSE flagCount
    /\ uPc' = [uPc EXCEPT ![p] = "update"]
    /\ UNCHANGED <<taxVars, retryVars, serverVars,
                   initPoints, initBadges, dbPoints, dbBadges,
                   classifications, wasteTypeArg, isRecyclable, uBefore,
                   storeFailed, overlapped, lastCall, callsStarted>>

\* The select failed (userError): 'Failed to fetch user data'.
SelectRejects(p) ==
    /\ uPc[p] = "select"
    /\ Throw(p, "Failed to fetch user data")

\* The update succeeded: the row holds newPoints and badges; the call
\* returns.
UpdateResolves(p) ==
    /\ uPc[p] = "update"
    /\ dbPoints' = <<newPoints[p]>>
    /\ dbBadges' = <<badges[p]>>
    /\ Return(p)
    /\ lastCall' = Finished(p, "", dbPoints', dbBadges')
    /\ UNCHANGED <<taxVars, retryVars, serverVars,
                   initPoints, initBadges, classifications,
                   badgeNotification, flagCount, storeFailed, overlapped,
                   callsStarted>>

\* The update failed (pointsError): 'Failed to update points'.
UpdateRejects(p) ==
    /\ uPc[p] = "update"
    /\ Throw(p, "Failed to update points")

\* The steps of a call made on its own: the component state that
\* handleClassify and handleImageChange write is left alone.
StartUpdate(p, wt) == UpdateStarts(p, wt) /\ UNCHANGED uiVars

InsertDone(p) == InsertResolves(p) /\ UNCHANGED uiVars

InsertFails(p) == InsertRejects(p) /\ UNCHANGED uiVars

SelectDone(p) == SelectResolves(p) /\ UNCHANGED uiVars

SelectFails(p) == SelectRejects(p) /\ UNCHANGED uiVars

UpdateDone(p) == UpdateResolves(p) /\ UNCHANGED uiVars

UpdateFails(p) == UpdateRejects(p) /\ UNCHANGED uiVars

LedgerNext ==
    \/ \E p \in Clients, wt \in WasteTypes : StartUpdate(p, wt)
    \/ \E p \in Clients : InsertDone(p)
    \/ \E p \in Clients : InsertFails(p)
    \/ \E p \in Clients : SelectDone(p)
    \/ \E p \in Clients : SelectFails(p)
    \/ \E p \in Clients : UpdateDone(p)
    \/ \E p \in Clients : UpdateFails(p)

(***************************************************************************)
(* The classification endpoint.                                            *)
(*                                                                         *)
(* The repository holds two handlers: unnamed/part_002 (Cloud Vision and   *)
(* the Places search behind it) and api/classify-waste.js (the route the   *)
(* client posts to; it answers with a fixed classification).  A request is *)
(* handled by one of them.  Neither reads the Authorization header.        *)
(***************************************************************************)
\* JSON values are written as strings; Undefined is a missing member.
Undefined == "undefined"

\* !v for the values of the model: a missing member, the empty string and
\* the number 0 are falsy.
falsy(v) == v \in {Undefined, "", "0"}

\* switch (wasteType) (unnamed/part_002, 42-49)
queryOf(wt) ==
    CASE wt = "Recyclable" -> "recycling center"
      [] wt = "Hazardous"  -> "hazardous waste disposal"
      [] wt = "Donatable"  -> "thrift store OR donation center"
      [] wt = "Organic"    -> "compost facility"
      [] OTHER             -> "waste disposal"

\* The params of googleMapsClient.placesNearby (lines 53-58).
placesParams(wt, userLocation) ==
    [location |-> userLocation, radius |-> "5000", keyword |-> queryOf(wt)]

\* Array.prototype.slice(0, n)
sliceFromStart(arr, n) == SubSeq(arr, 1, IF Len(arr) < n THEN Len(arr) ELSE n)

\* response.data.results.slice(0, 3)
shownPlaces(results) == sliceFromStart(results, 3)

\* place.rating || 'N/A'
ratingOrNA(r) == IF falsy(r) THEN "N/A" ELSE r

\* place => ({ name, address: place.vicinity, rating: place.rating || 'N/A' })
facilityOf(place) ==
    [name |-> place.name, address |-> place.vicinity,
     rating |-> ratingOrNA(place.rating)]

\* Variant of findNearbyLocations: a failed places query is thrown on.
findNearbyLocationsRethrow(resp) ==
    IF resp.kind = "results"
    THEN [threw |-> FALSE,
          value |-> [k \in DOMAIN shownPlaces(resp.results) |->
                        facilityOf(shownPlaces(resp.results)[k])]]
    ELSE [threw |-> TRUE, value |-> <<>>]

\* findNearbyLocations once placesNearby has settled with resp (lines
\* 51-68).  resp.kind is "throws" (the query rejected), "noResults" (a
\* response whose data has no results array: .slice throws a TypeError
\* inside the try) or "results".  The catch returns []: nothing is thrown.
findNearbyLocations(resp) ==
    IF resp.kind = "results"
    THEN [threw |-> FALSE,
          value |-> [k \in DOMAIN shownPlaces(resp.results) |->
                        facilityOf(shownPlaces(resp.results)[k])]]
    ELSE [threw |-> FALSE, value |-> <<>>]

\* visionResult.labelAnnotations.map(label => label.description.toLowerCase())
lowerCased(descriptions) ==
    [k \in DOMAIN descriptions |-> toLowerCase(descriptions[k])]

\* A response body: the members a handler did not write are empty.
errorBody(msg) ==
    [error |-> msg, labels |-> <<>>, wasteType |-> "", locations |-> <<>>]

resultBody(ls, wt, locs) ==
    [error |-> "", labels |-> ls, wasteType |-> wt, locations |-> locs]

NoBody == errorBody("")

\* mockClassification (api/classify-waste.js, 47-57)
mockClassification ==
    resultBody(<<"plastic bottle">>, "recyclable",
               << [name |-> "Local Recycling Center",
                   address |-> "123 Green Street", rating |-> "4.5"] >>)

(***************************************************************************)
(* The requests and the answers of the external services.                  *)
(***************************************************************************)
Methods == {"POST", "GET", "OPTIONS"}

\* userLocation: absent, complete, on the equator (lat is 0), without lng.
NoLocation == [present |-> FALSE, lat |-> Undefined, lng |-> Undefined]

UserLocations ==
    { NoLocation,
      [present |-> TRUE, lat |-> "48.85", lng |-> "2.35"],
      [present |-> TRUE, lat |-> "0", lng |-> "2.35"],
      [present |-> TRUE, lat |-> "48.85", lng |-> Undefined] }

\* The Authorization header: none, a token of no session, a session token.
NoToken == ""
ValidToken == "Bearer session-token"
Authorizations == {NoToken, "Bearer expired-token", ValidToken}

Requests ==
    [method : Methods, imageBase64 : {"", "aW1hZ2U="}, userId : {"", "user-1"},
     userLocation : UserLocations, authorization : Authorizations]

\* What label detection yields for the image of the request.
VisionDescriptions ==
    { <<>>, <<"Plastic bottle">>, <<"plastic bottle">>, <<"Sky", "Battery">>,
      <<"Food", "Paper">>, <<"Cloud">> }

\* The places the search can return: rated, unrated, rated 0.
Places ==
    { [name |-> "Depot A", vicinity |-> "1 Main St", rating |-> "4.5"],
      [name |-> "Depot B", vicinity |-> "2 Side St", rating |-> Undefined],
      [name |-> "Depot C", vicinity |-> "3 Back St", rating |-> "0"] }

PlacesResponses ==
    { [kind |-> "throws", results |-> <<>>],
      [kind |-> "noResults", results |-> <<>>] }
    \cup { [kind |-> "results", results |-> r] : r \in SeqsUpTo(Places, MaxPlaces) }

NoPlacesResponse == [kind |-> "none", results |-> <<>>]

NoParams == [location |-> NoLocation, radius |-> "", keyword |-> ""]

NoRequest ==
    [method |-> "", imageBase64 |-> "", userId |-> "",
     userLocation |-> NoLocation, authorization |-> NoToken]

ServerIdle ==
    /\ endpoint = ""
    /\ req = NoRequest
    /\ visionDescriptions = <<>>
    /\ sPc = "idle"
    /\ sLabels = <<>>
    /\ sWasteType = ""
    /\ placesQuery = NoParams
    /\ placesResponse = NoPlacesResponse
    /\ resStatus = 0
    /\ resBody = NoBody

\* A request has arrived at one of the handlers.
ServerInit ==
    /\ endpoint \in {"part_002", "api/classify-waste"}
    /\ req \in Requests
    /\ visionDescriptions \in VisionDescriptions
    /\ sPc = "received"
    /\ sLabels = <<>>
    /\ sWasteType = ""
    /\ placesQuery = NoParams
    /\ placesResponse = NoPlacesResponse
    /\ resStatus = 0
    /\ resBody = NoBody

\* res.status(code).json(body) / res.status(code).end()
Respond(code, body) ==
    /\ resStatus' = code
    /\ resBody' = body
    /\ sPc' = "done"

\* unnamed/part_002, 72-85: the cors middleware answers a preflight itself;
\* otherwise the callback runs up to the await of labelDetection.
HandleRequest ==
    /\ endpoint = "part_002"
    /\ sPc = "received"
    /\ IF req.method = "OPTIONS"
       THEN Respond(204, NoBody)
       ELSE IF req.method # "POST"
       THEN Respond(405, errorBody("Method not allowed"))
       ELSE IF \/ falsy(req.imageBase64)
               \/ falsy(req.userLocation.lat)
               \/ falsy(req.userLocation.lng)
       THEN Respond(400, errorBody("Missing image or location"))
       ELSE /\ sPc' = "vision"
            /\ UNCHANGED <<resStatus, resBody>>
    /\ UNCHANGED <<taxVars, retryVars, ledgerVars, uiVars, endpoint, req,
                   visionDescriptions, sLabels, sWasteType, placesQuery,
                   placesResponse>>

\* labelDetection resolved: lines 86-88, up to the await of placesNearby
\* inside findNearbyLocations.
VisionResolves ==
    /\ sPc = "vision"
    /\ sLabels' = lowerCased(visionDescriptions)
    /\ sWasteType' = classifyWasteType(sLabels')
    /\ placesQuery' = placesParams(sWasteType', req.userLocation)
    /\ sPc' = "places"
    /\ UNCHANGED <<taxVars, retryVars, ledgerVars, uiVars, endpoint, req,
                   visionDescriptions, placesResponse, resStatus, resBody>>

\* labelDetection rejected: the catch of lines 91-94.
VisionRejects ==
    /\ sPc = "vision"
    /\ Respond(500, errorBody("Failed to classify image"))
    /\ UNCHANGED <<taxVars, retryVars, ledgerVars, uiVars, endpoint, req,
                   visionDescriptions, sLabels, sWasteType, placesQuery,
                   placesResponse>>

\* placesNearby settled: findNearbyLocations returns, the handler answers
\* (line 90), or its catch does if findNearbyLocations threw.
PlacesSettles ==
    /\ sPc = "places"
    /\ \E resp \in PlacesResponses :
          /\ placesResponse' = resp
          /\ LET locations == findNearbyLocations(resp)
             IN  IF locations.threw
                 THEN Respond(500, errorBody("Failed to classify image"))
                 ELSE Respond(200, resultBody(sLabels, sWasteType, locations.value))
    /\ UNCHANGED <<taxVars, retryVars, ledgerVars, uiVars, endpoint, req,
                   visionDescriptions, sLabels, sWasteType, placesQuery>>

\* api/classify-waste.js, 18-65: the handler has no await.
HandleStub ==
    /\ endpoint = "api/classify-waste"
    /\ sPc = "received"
    /\ IF req.method = "OPTIONS"
       THEN Respond(200, NoBody)
       ELSE IF req.method # "POST"
       THEN Respond(405, errorBody("Method not allowed"))
       ELSE IF falsy(req.imageBase64) \/ falsy(req.userId)
       THEN Respond(400, errorBody("Missing required fields"))
       ELSE Respond(200, mockClassification)
    /\ UNCHANGED <<taxVars, retryVars, ledgerVars, uiVars, endpoint, req,
                   visionDescriptions, sLabels, sWasteType, placesQuery,
                   placesResponse>>

ServerNext ==
    \/ HandleRequest
    \/ VisionResolves
    \/ VisionRejects
    \/ PlacesSettles
    \/ HandleStub

(***************************************************************************)
(* The WasteClassifier component (src/components/WasteClassifier.jsx):     *)
(* handleImageChange (41-62) and handleClassify (65-140).                  *)
(*                                                                         *)
(* One mounted component is followed.  An invocation of handleClassify     *)
(* suspends at getSession, at the FileReader, at fetch (the reading of the *)
(* response body is part of the step that settles the fetch) and at        *)
(* updateUserProgress; the code between two awaits runs as one step.       *)
(* updateUserProgress runs as in the section above, on the same store.     *)
(***************************************************************************)
\* The component that is followed.
uiClient == CHOOSE p \in Clients : TRUE

\* const validTypes = [...] (line 44)
validTypes == <<"image/jpeg", "image/png", "image/jpg">>

\* 5 * 1024 * 1024 (line 50)
maxImageSize == 5 * 1024 * 1024

\* The files a user picks: two valid ones (the second exactly at the size
\* limit), one of another type, one above the size limit.
Files ==
    { [name |-> "a.jpg", type |-> "image/jpeg", size |-> 1024],
      [name |-> "b.png", type |-> "image/png", size |-> maxImageSize],
      [name |-> "c.gif", type |-> "image/gif", size |-> 1024],
      [name |-> "d.jpg", type |-> "image/jpg", size |-> maxImageSize + 1] }

\* Variant of validationError: every file is accepted.
validationErrorNone(file) == ""

\* The message of the validation that rejects the file (lines 45-54); ""
\* when the file passes.
validationError(file) ==
    IF ~arrayIncludes(validTypes, file.type)
    THEN "Please upload a valid image (JPEG, PNG, or JPG)."
    ELSE IF file.size > maxImageSize
    THEN "Image size must be less than 5MB."
    ELSE ""

\* URL.createObjectURL(file)
createObjectURL(file) == "blob:" \o file.name

\* getDisposalInstructions (191-200)
getDisposalInstructions(wt) ==
    LET key == toLowerCase(wt)
    IN  CASE key = "recyclable" -> "Clean and place in the recycling bin"
          [] key = "organic"    -> "Place in the compost bin"
          [] key = "hazardous"  -> "Take to a hazardous waste facility"
          [] key = "landfill"   -> "Place in the general waste bin"
          [] OTHER              -> "Check local disposal guidelines"

\* getWasteReductionTip (202-211)
getWasteReductionTip(wt) ==
    LET key == toLowerCase(wt)
    IN  CASE key = "recyclable" -> "Consider reusable alternatives"
          [] key = "organic"    -> "Try composting at home"
          [] key = "hazardous"  -> "Look for eco-friendly alternatives"
          [] key = "landfill"   -> "Look for recyclable alternatives"
          [] OTHER              -> "Reduce, Reuse, Recycle when possible"

\* result === null
NoResult ==
    [classification |-> "", wasteType |-> "", locations |-> <<>>,
     instructions |-> "", tip |-> ""]

\* classificationResult (lines 113-119); data.labels[0] of an empty array
\* is undefined.
classificationResult(data) ==
    [classification |-> IF data.labels = <<>> THEN Undefined ELSE data.labels[1],
     wasteType      |-> data.wasteType,
     locations      |-> data.locations,
     instructions   |-> getDisposalInstructions(data.wasteType),
     tip            |-> getWasteReductionTip(data.wasteType)]

\* The members of the default export of react-hot-toast (import, line 7)
\* that show a toast.  It has no member `warning`.
toastMethods == {"success", "error", "loading", "custom"}

\* toast.<method>(message): shows the toast, or throws the TypeError of
\* calling a member that is undefined.  The toasts shown are not kept.
toastCall(method, message) ==
    IF method \in toastMethods
    THEN [threw |-> FALSE, message |-> message]
    ELSE [threw |-> TRUE, message |-> "toast." \o method \o " is not a function"]

\* The bodies of the 200 answers: the answer of api/classify-waste.js, and
\* answers as unnamed/part_002 builds them.
ResponseData ==
    { mockClassification,
      resultBody(<<"plastic bottle">>, "Recyclable", <<>>),
      resultBody(<<>>, "General Waste", <<>>) }

\* The answers that are not OK: the two 400s and the 500 of the handlers,
\* a JSON body without an error member, a body that is not JSON.
ErrorResponses ==
    { [status |-> "400", json |-> TRUE, error |-> "Missing required fields"],
      [status |-> "500", json |-> TRUE, error |-> "Internal server error"],
      [status |-> "502", json |-> TRUE, error |-> ""],
      [status |-> "504", json |-> FALSE, error |-> ""] }

\* errorData.error || `Server error: ${response.status}` with the fallback
\* of line 106 for a body that is not JSON.
responseErrorMessage(resp) ==
    IF ~resp.json THEN "Unknown error"
    ELSE IF resp.error = "" THEN "Server error: " \o resp.status
    ELSE resp.error

\* The variables of updateUserProgress other than the badge notification.
ledgerRest == <<initPoints, initBadges, dbPoints, dbBadges, classifications,
                uPc, wasteTypeArg, isRecyclable, newPoints, badges, uBefore,
                uFlagged, flagCount, storeFailed, overlapped, lastCall,
                callsStarted>>

UiIdle ==
    /\ image = ""
    /\ imagePreview = ""
    /\ result = NoResult
    /\ resultOf = ""
    /\ error = ""
    /\ loading = FALSE
    /\ flights = {}
    /\ fetchCalls = 0
    /\ classifyStarted = 0

\* useState(...) (lines 10-15)
UiInit == UiIdle

\* handleImageChange with e.target.files[0] = file (lines 41-62).
handleImageChange(file) ==
    /\ IF validationError(file) # ""
       THEN /\ error' = validationError(file)
            /\ ~toastCall("error", validationError(file)).threw
            /\ UNCHANGED <<image, imagePreview, result, resultOf, badgeNotification>>
       ELSE /\ image' = file.name
            /\ imagePreview' = createObjectURL(file)
            /\ result' = NoResult
            /\ resultOf' = ""
            /\ error' = ""
            /\ badgeNotification' = [badgeNotification EXCEPT ![uiClient] = ""]
    /\ UNCHANGED <<taxVars, retryVars, serverVars, ledgerRest, loading, flights,
                   fetchCalls, classifyStarted>>

\* Variant of classifyDisabled: the button is never disabled.
classifyNeverDisabled == FALSE

\* disabled={loading} of the Classify button (lines 407-410)
classifyDisabled == loading

\* The Classify button is clicked: handleClassify up to the await of
\* getSession (lines 65-82).
handleClassify ==
    /\ ~classifyDisabled
    /\ IF image = ""
       THEN /\ error' = "Please upload an image to classify."
            /\ ~toastCall("error", "Please upload an image to classify.").threw
            /\ UNCHANGED <<loading, result, resultOf, badgeNotification, flights,
                           classifyStarted>>
       ELSE /\ classifyStarted < MaxCalls
            /\ loading' = TRUE
            /\ error' = ""
            /\ result' = NoResult
            /\ resultOf' = ""
            /\ badgeNotification' = [badgeNotification EXCEPT ![uiClient] = ""]
            /\ flights' = flights \cup
                  {[id |-> classifyStarted + 1, pc |-> "getSession",
                    image |-> image, callsBefore |-> callsStarted]}
            /\ classifyStarted' = classifyStarted + 1
    /\ UNCHANGED <<taxVars, retryVars, serverVars, ledgerRest, image,
                   imagePreview, fetchCalls>>

\* The invocation f moves on to its next await.
Await(f, pc) == flights' = (flights \ {f}) \cup {[f EXCEPT !.pc = pc]}

\* The invocation f is over: finally { setLoading(false) } (137-139).
Finally(f) ==
    /\ loading' = FALSE
    /\ flights' = flights \ {f}

\* Variant of CatchError: the error is not shown.
CatchErrorSilent(f, msg) ==
    /\ UNCHANGED error
    /\ loading' = FALSE
    /\ flights' = flights \ {f}

\* The catch of lines 133-136 with err.message = msg, then the finally.
CatchError(f, msg) ==
    /\ error' = IF msg = "" THEN "Failed to classify image. Please try again."
                ELSE msg
    /\ ~toastCall("error", error').threw
    /\ Finally(f)

\* getSession resolved with a session: the FileReader is started (87-91).
SessionResolves(f) ==
    /\ f.pc = "getSession"
    /\ Await(f, "encode")
    /\ UNCHANGED <<taxVars, retryVars, serverVars, ledgerVars, image,
                   imagePreview, result, resultOf, error, loading, fetchCalls,
                   classifyStarted>>

\* getSession resolved without a session: line 84 throws.
NoSession(f) ==
    /\ f.pc = "getSession"
    /\ CatchError(f, "Authentication required")
    /\ UNCHANGED <<taxVars, retryVars, serverVars, ledgerVars, image,
                   imagePreview, result, resultOf, fetchCalls, classifyStarted>>

\* The FileReader finished: the request is sent (93-103).
EncodeDone(f) ==
    /\ f.pc = "encode"
    /\ fetchCalls' = fetchCalls + 1
    /\ Await(f, "fetch")
    /\ UNCHANGED <<taxVars, retryVars, serverVars, ledgerVars, image,
                   imagePreview, result, resultOf, error, loading, classifyStarted>>

\* fetch rejected (the network failed).
FetchRejects(f) ==
    /\ f.pc = "fetch"
    /\ CatchError(f, "Failed to fetch")
    /\ UNCHANGED <<taxVars, retryVars, serverVars, ledgerVars, image,
                   imagePreview, result, resultOf, fetchCalls, classifyStarted>>

\* The answer is not OK: line 107 throws.
ResponseNotOk(f, resp) ==
    /\ f.pc = "fetch"
    /\ CatchError(f, responseErrorMessage(resp))
    /\ UNCHANGED <<taxVars, retryVars, serverVars, ledgerVars, image,
                   imagePreview, result, resultOf, fetchCalls, classifyStarted>>

\* The answer is OK but its body has no labels: line 114 throws.
ResponseMalformed(f) ==
    /\ f.pc = "fetch"
    /\ CatchError(f, "Cannot read properties of undefined (reading '0')")
    /\ UNCHANGED <<taxVars, retryVars, serverVars, ledgerVars, image,
                   imagePreview, result, resultOf, fetchCalls, classifyStarted>>

\* The answer is OK: lines 110-126, up to the first await inside
\* updateUserProgress.
ResponseOk(f, data) ==
    /\ f.pc = "fetch"
    /\ result' = classificationResult(data)
    /\ resultOf' = f.image
    /\ ~toastCall("success", "Waste classified successfully!").threw
    /\ Await(f, "progress")
    /\ UpdateStarts(uiClient, data.wasteType)
    /\ UNCHANGED <<image, imagePreview, error, loading, fetchCalls,
                   classifyStarted>>

\* updateUserProgress returned: the finally.
ProgressDone(f) ==
    /\ f.pc = "progress"
    /\ UpdateResolves(uiClient)
    /\ Finally(f)
    /\ UNCHANGED <<image, imagePreview, result, resultOf, error, fetchCalls,
                   classifyStarted>>

\* updateUserProgress threw: the catch of lines 127-131.  If its toast
\* call throws, the error reaches the catch of line 133.
ProgressFails(f) ==
    /\ f.pc = "progress"
    /\ \/ InsertRejects(uiClient)
       \/ SelectRejects(uiClient)
       \/ UpdateRejects(uiClient)
    /\ LET warned == toastCall("warning", "Progress update failed. Please try again later.")
       IN  IF warned.threw
           THEN CatchError(f, warned.message)
           ELSE Finally(f) /\ UNCHANGED error
    /\ UNCHANGED <<image, imagePreview, result, resultOf, fetchCalls,
                   classifyStarted>>

UiNext ==
    \/ \E file \in Files : handleImageChange(file)
    \/ handleClassify
    \/ \E f \in flights : SessionResolves(f)
    \/ \E f \in flights : NoSession(f)
    \/ \E f \in flights : EncodeDone(f)
    \/ \E f \in flights : FetchRejects(f)
    \/ \E f \in flights, resp \in ErrorResponses : ResponseNotOk(f, resp)
    \/ \E f \in flights : ResponseMalformed(f)
    \/ \E f \in flights, data \in ResponseData : ResponseOk(f, data)
    \/ InsertDone(uiClient)
    \/ SelectDone(uiClient)
    \/ \E f \in flights : ProgressDone(f)
    \/ \E f \in flights : ProgressFails(f)

(***************************************************************************)
(* withRetry (src/supabase.js, 28-54).                                     *)
(*                                                                         *)
(* Time is a discrete clock.  A timer fires exactly when the clock reaches *)
(* its due time; fn() settles at any time, or never.  The code between two *)
(* awaits runs as one step and takes no time.                              *)
(***************************************************************************)
NoError == [kind |-> "undefined", attempt |-> 0]
NoValue == [kind |-> "none", attempt |-> 0]

\* new Error(`Operation timed out after ${timeoutMs}ms`), of attempt k
TimeoutError(k) == [kind |-> "timeout", attempt |-> k]
\* the rejection of the k-th fn() invocation
FnError(k) == [kind |-> "rejected", attempt |-> k]
\* the value the k-th fn() invocation resolves with
FnValue(k) == [kind |-> "value", attempt |-> k]

\* Variant of timeoutDue: the timer armed with delayMs.
timeoutDueWrongOption(t) == t + delayMs

\* setTimeout(() => reject(...), timeoutMs), armed at time t
timeoutDue(t) == t + timeoutMs

\* Variant of BackoffDelay: the same delay after every attempt.
BackoffDelayFixed(k) == delayMs

\* delayMs * (i + 1), k the 0-based loop index i
BackoffDelay(k) == delayMs * (k + 1)

\* Variant of RecordError: the first error is kept.
RecordErrorKeepFirst(prev, err) == IF prev = NoError THEN err ELSE prev

\* lastError = err
RecordError(prev, err) == err

\* if (i === maxRetries - 1) break
IsLastAttempt(k) == k = maxRetries - 1

RetryIdle ==
    /\ maxRetries = 0
    /\ delayMs = 0
    /\ timeoutMs = 0
    /\ loopI = 0
    /\ lastError = NoError
    /\ rPc = "idle"
    /\ now = 0
    /\ timers = {}
    /\ backoffDue = 0
    /\ fnRunning = {}
    /\ fnCalls = 0
    /\ attemptLog = <<>>
    /\ warnings = <<>>
    /\ waits = <<>>
    /\ rResult = NoValue
    /\ settledAt = 0

RetryInit ==
    /\ maxRetries \in 0..MaxRetriesBound
    /\ delayMs \in 1..MaxDelayMs
    /\ timeoutMs \in 1..MaxTimeoutMs
    /\ loopI = 0
    /\ lastError = NoError
    /\ rPc = "init"
    /\ now = 0
    /\ timers = {}
    /\ backoffDue = 0
    /\ fnRunning = {}
    /\ fnCalls = 0
    /\ attemptLog = <<>>
    /\ warnings = <<>>
    /\ waits = <<>>
    /\ rResult = NoValue
    /\ settledAt = 0

\* The head of the for loop entered with index k: either the k-th pass
\* starts (the timeout timer is armed, fn() is invoked, the race is
\* awaited) or the loop is left and lastError is thrown (line 53).
LoopHead(k) ==
    /\ loopI' = k
    /\ IF k < maxRetries
       THEN /\ timers' = timers \cup {[attempt |-> k + 1, due |-> timeoutDue(now)]}
            /\ fnRunning' = fnRunning \cup {k + 1}
            /\ fnCalls' = fnCalls + 1
            /\ attemptLog' = Append(attemptLog,
                  [start |-> now, end |-> now, outcome |-> "pending", error |-> NoError])
            /\ rPc' = "race"
            /\ UNCHANGED <<rResult, settledAt>>
       ELSE /\ rPc' = "thrown"
            /\ rResult' = lastError
            /\ settledAt' = now
            /\ UNCHANGED <<timers, fnRunning, fnCalls, attemptLog>>

\* withRetry(fn, options) is called.
Call ==
    /\ rPc = "init"
    /\ LoopHead(0)
    /\ UNCHANGED <<taxVars, ledgerVars, serverVars, uiVars,
                   maxRetries, delayMs, timeoutMs, lastError, now, backoffDue,
                   warnings, waits>>

Decide(outcome, err) ==
    attemptLog' = [attemptLog EXCEPT ![loopI + 1] =
                      [@ EXCEPT !.end = now, !.outcome = outcome, !.error = err]]

\* The catch block (lines 44-50), entered with err.
Catch(err) ==
    /\ lastError' = RecordError(lastError, err)
    /\ IF IsLastAttempt(loopI)
       THEN /\ rPc' = "thrown"
            /\ rResult' = lastError'
            /\ settledAt' = now
            /\ UNCHANGED <<warnings, waits, backoffDue>>
       ELSE /\ warnings' = Append(warnings,
                  [retry |-> loopI + 1, of |-> maxRetries, error |-> err])
            /\ waits' = Append(waits,
                  [after |-> loopI + 1, from |-> now, delay |-> BackoffDelay(loopI)])
            /\ backoffDue' = now + BackoffDelay(loopI)
            /\ rPc' = "backoff"
            /\ UNCHANGED <<rResult, settledAt>>

\* Variant of OnResolve: the value is not returned and the loop goes on.
OnResolveContinue(k) ==
    /\ Decide("ok", NoError)
    /\ fnRunning' = fnRunning \ {k}
    /\ rPc' = IF k < maxRetries THEN "backoff" ELSE "thrown"
    /\ rResult' = IF k < maxRetries THEN rResult ELSE lastError
    /\ settledAt' = now
    /\ backoffDue' = now
    /\ UNCHANGED <<lastError, warnings, waits>>

\* return await Promise.race(...): fn() resolved first.
OnResolve(k) ==
    /\ Decide("ok", NoError)
    /\ fnRunning' = fnRunning \ {k}
    /\ rPc' = "returned"
    /\ rResult' = FnValue(k)
    /\ settledAt' = now
    /\ UNCHANGED <<lastError, warnings, waits, backoffDue>>

\* fn() of the attempt being raced resolves before the timer fires.
FnResolves ==
    /\ rPc = "race"
    /\ loopI + 1 \in fnRunning
    /\ OnResolve(loopI + 1)
    /\ UNCHANGED <<taxVars, ledgerVars, serverVars, uiVars,
                   maxRetries, delayMs, timeoutMs, loopI, now, timers, fnCalls>>

\* fn() rejected (or threw) first.
FnRejects ==
    /\ rPc = "race"
    /\ loopI + 1 \in fnRunning
    /\ Decide("rejected", FnError(loopI + 1))
    /\ fnRunning' = fnRunning \ {loopI + 1}
    /\ Catch(FnError(loopI + 1))
    /\ UNCHANGED <<taxVars, ledgerVars, serverVars, uiVars,
                   maxRetries, delayMs, timeoutMs, loopI, now, timers, fnCalls>>

\* The timeout timer of the attempt being raced fires first.  fn() is left
\* running.
TimeoutFires ==
    /\ rPc = "race"
    /\ \E t \in timers :
          /\ t.attempt = loopI + 1
          /\ t.due = now
          /\ timers' = timers \ {t}
    /\ Decide("timeout", TimeoutError(loopI + 1))
    /\ Catch(TimeoutError(loopI + 1))
    /\ UNCHANGED <<taxVars, ledgerVars, serverVars, uiVars,
                   maxRetries, delayMs, timeoutMs, loopI, now, fnRunning, fnCalls>>

\* The backoff timer fires: the loop goes on with i + 1.
BackoffElapsed ==
    /\ rPc = "backoff"
    /\ backoffDue = now
    /\ LoopHead(loopI + 1)
    /\ UNCHANGED <<taxVars, ledgerVars, serverVars, uiVars,
                   maxRetries, delayMs, timeoutMs, lastError, now, backoffDue,
                   warnings, waits>>

\* The attempt k was decided (rejection or resolution of fn) and its timer
\* is still armed: it fires and rejects a promise nobody awaits any more.
StaleTimerFires ==
    /\ \E t \in timers :
          /\ t.due = now
          /\ ~(rPc = "race" /\ t.attempt = loopI + 1)
          /\ timers' = timers \ {t}
    /\ UNCHANGED <<taxVars, ledgerVars, serverVars, uiVars,
                   maxRetries, delayMs, timeoutMs, loopI, lastError, rPc, now,
                   backoffDue, fnRunning, fnCalls, attemptLog, warnings, waits,
                   rResult, settledAt>>

\* An fn() invocation whose attempt timed out settles later; its outcome
\* is dropped.
LateFnSettles ==
    /\ \E k \in fnRunning :
          /\ ~(rPc = "race" /\ k = loopI + 1)
          /\ fnRunning' = fnRunning \ {k}
    /\ UNCHANGED <<taxVars, ledgerVars, serverVars, uiVars,
                   maxRetries, delayMs, timeoutMs, loopI, lastError, rPc, now,
                   timers, backoffDue, fnCalls, attemptLog, warnings, waits,
                   rResult, settledAt>>

\* Time passes while something is pending; no timer is overrun.
Tick ==
    /\ now < MaxTime
    /\ rPc \in {"race", "backoff"} \/ timers # {} \/ fnRunning # {}
    /\ \A t \in timers : now < t.due
    /\ rPc = "backoff" => now < backoffDue
    /\ now' = now + 1
    /\ UNCHANGED <<taxVars, ledgerVars, serverVars, uiVars,
                   maxRetries, delayMs, timeoutMs, loopI, lastError, rPc, timers,
                   backoffDue, fnRunning, fnCalls, attemptLog, warnings, waits,
                   rResult, settledAt>>

RetryNext ==
    \/ Call
    \/ FnResolves
    \/ FnRejects
    \/ TimeoutFires
    \/ BackoffElapsed
    \/ StaleTimerFires
    \/ LateFnSettles
    \/ Tick

InitRetry == RetryInit /\ TaxIdle /\ LedgerIdle /\ ServerIdle /\ UiIdle

SpecRetry == InitRetry /\ [][RetryNext]_vars

InitLedger == LedgerInit /\ TaxIdle /\ RetryIdle /\ ServerIdle /\ UiIdle

SpecLedger == InitLedger /\ [][LedgerNext]_vars

InitTaxonomy == TaxInit /\ RetryIdle /\ LedgerIdle /\ ServerIdle /\ UiIdle

SpecTaxonomy == InitTaxonomy /\ [][TaxNext]_vars

InitServer == ServerInit /\ TaxIdle /\ RetryIdle /\ LedgerIdle /\ UiIdle

SpecServer == InitServer /\ [][ServerNext]_vars

InitUi == UiInit /\ LedgerInit /\ TaxIdle /\ RetryIdle /\ ServerIdle

SpecUi == InitUi /\ [][UiNext]_vars

\* Every operation an invocation of handleClassify awaits settles: the
\* session retrieval, the FileReader, the fetch and each store operation.
Settles ==
    \/ \E f \in flights : SessionResolves(f)
    \/ \E f \in flights : NoSession(f)
    \/ \E f \in flights : EncodeDone(f)
    \/ \E f \in flights : FetchRejects(f)
    \/ \E f \in flights, resp \in ErrorResponses : ResponseNotOk(f, resp)
    \/ \E f \in flights : ResponseMalformed(f)
    \/ \E f \in flights, data \in ResponseData : ResponseOk(f, data)
    \/ InsertDone(uiClient)
    \/ SelectDone(uiClient)
    \/ \E f \in flights : ProgressDone(f)
    \/ \E f \in flights : ProgressFails(f)

\* SpecUi with the awaited operations settling; the user's own actions
\* (selecting a file, clicking Classify) are under no obligation.
SpecUiFair == SpecUi /\ WF_vars(Settles)

(***************************************************************************)
(* Claims about classifyWasteType, checked under SpecTaxonomy.             *)
(***************************************************************************)
Categories == {"Recyclable", "Hazardous", "Donatable", "Organic", "General Waste"}

keywordSets == <<recyclable, hazardous, donatable, organic>>
setCategory == <<"Recyclable", "Hazardous", "Donatable", "Organic">>

\* The keyword sets (by position in the fixed order) with a keyword in label l.
SetsHit(l) == {k \in DOMAIN keywordSets : someIncluded(keywordSets[k], l)}

\* The positions of the labels that contain a keyword of any set.
KeywordPositions(ls) == {i \in DOMAIN ls : SetsHit(ls[i]) # {}}

MinOf(S) == CHOOSE x \in S : \A y \in S : x <= y

\* C8: for every label sequence classifyWasteType returns one of the five
\* categories; it returns General Waste for the empty sequence and for a
\* sequence none of whose labels contains a keyword.
C8_ClosedEnumeration ==
    txPc = "done" =>
        /\ wasteType \in Categories
        /\ (labels = <<>> => wasteType = "General Waste")
        /\ (KeywordPositions(labels) = {} => wasteType = "General Waste")

C8_Witness ==
    /\ txPc = "done"
    /\ labels = <<"unknown object", "Plastic Bottle">>
    /\ wasteType = "General Waste"

\* C9: order law. The category is the one the first label (in sequence
\* order) that contains any keyword yields on its own; the labels after it
\* never change the result. ["food", "plastic bottle"] yields Organic.
C9_OrderLaw ==
    txPc = "done" =>
        /\ KeywordPositions(labels) # {} =>
              LET f == MinOf(KeywordPositions(labels))
              IN  /\ wasteType = classifyWasteType(<<labels[f]>>)
                  /\ wasteType = classifyWasteType(SubSeq(labels, 1, f))
        /\ (labels = <<"food", "plastic bottle">> => wasteType = "Organic")

C9_Witness ==
    /\ txPc = "done"
    /\ labels = <<"food", "plastic bottle">>
    /\ wasteType = "Organic"

\* C10: priority law. When the matched label contains keywords of two or
\* more keyword sets, the category is that of the set that comes first in
\* the order recyclable, hazardous, donatable, organic.
C10_PriorityLaw ==
    (txPc = "done" /\ KeywordPositions(labels) # {}) =>
        LET m == labels[MinOf(KeywordPositions(labels))]
        IN  /\ Cardinality(SetsHit(m)) >= 2 => wasteType = setCategory[MinOf(SetsHit(m))]
            /\ (m = "battery can" => wasteType = "Recyclable")

\* "battery can" is classified, and every pair of keyword sets has a label
\* in the vocabulary that hits exactly that pair.
C10_Witness ==
    /\ txPc = "done"
    /\ labels = <<"battery can">>
    /\ wasteType = "Recyclable"
    /\ \A a, b \in DOMAIN keywordSets :
          a < b => \E l \in Vocabulary : SetsHit(l) = {a, b}

(***************************************************************************)
(* Claims about withRetry, checked under SpecRetry.                        *)
(***************************************************************************)
Failed == {"rejected", "timeout"}

\* The attempts 1..n have all been decided, each as a failure.
AllFailed(n) ==
    /\ Len(attemptLog) >= n
    /\ \A k \in 1..n : attemptLog[k].outcome \in Failed

\* C4: with maxRetries >= 1 and every attempt failing, fn is invoked exactly
\* maxRetries times and withRetry throws the error of the last attempt; it
\* returns no value in that case.
C4_ExhaustedRetries ==
    /\ (rPc = "thrown" /\ maxRetries >= 1) =>
          /\ fnCalls = maxRetries
          /\ Len(attemptLog) = maxRetries
          /\ AllFailed(maxRetries)
          /\ rResult = attemptLog[maxRetries].error
          /\ rResult.attempt = maxRetries
    /\ (maxRetries >= 1 /\ AllFailed(maxRetries)) =>
          /\ rPc = "thrown"
          /\ fnCalls = maxRetries
    /\ rPc = "returned" =>
          /\ rResult.kind = "value"
          /\ attemptLog[Len(attemptLog)].outcome = "ok"

C4_Witness ==
    /\ rPc = "thrown"
    /\ maxRetries = 3
    /\ fnCalls = 3
    /\ attemptLog[1].outcome = "rejected"
    /\ attemptLog[2].outcome = "timeout"
    /\ attemptLog[3].outcome = "rejected"
    /\ rResult = FnError(3)

\* C5: an attempt is decided at the latest when its timer of timeoutMs
\* fires; an attempt whose timer fires first fails with the timeout error
\* exactly timeoutMs after it started; it is followed by the backoff and the
\* next attempt when attempts remain, and by the throw of the timeout error
\* when it was the last of the maxRetries attempts.
C5_TimeoutRace ==
    /\ fnCalls <= maxRetries
    /\ \A k \in DOMAIN attemptLog :
          LET a == attemptLog[k]
          IN  /\ a.outcome = "pending" => now <= a.start + timeoutMs
              /\ a.outcome \in {"ok", "rejected"} => a.end <= a.start + timeoutMs
              /\ a.outcome = "timeout" =>
                    /\ a.end = a.start + timeoutMs
                    /\ a.error = TimeoutError(k)
                    /\ k < maxRetries =>
                          \/ rPc = "backoff" /\ loopI = k - 1 /\ lastError = TimeoutError(k)
                          \/ Len(attemptLog) > k
                    /\ k = maxRetries => rPc = "thrown" /\ rResult = TimeoutError(k)

C5_Witness ==
    /\ maxRetries = 2
    /\ timeoutMs = 2
    /\ Len(attemptLog) = 2
    /\ attemptLog[1].outcome = "timeout"
    /\ attemptLog[1].end = attemptLog[1].start + 2
    /\ 1 \in fnRunning
    /\ attemptLog[2].outcome = "pending"

C7_ThirdAttemptSucceeds ==
    (/\ maxRetries = 3
     /\ Len(attemptLog) >= 3
     /\ AllFailed(2)
     /\ attemptLog[3].outcome = "ok") =>
        /\ rPc = "returned"
        /\ rResult = FnValue(3)
        /\ Len(warnings) = 2
        /\ warnings[1].retry = 1 /\ warnings[1].error = attemptLog[1].error
        /\ warnings[2].retry = 2 /\ warnings[2].error = attemptLog[2].error
        /\ fnCalls = 3
        /\ Len(attemptLog) = 3

\* The call has returned the third value and nothing is pending any more.
C7_Witness ==
    /\ maxRetries = 3
    /\ AllFailed(2)
    /\ Len(attemptLog) = 3 /\ attemptLog[3].outcome = "ok"
    /\ rPc = "returned"
    /\ rResult = FnValue(3)
    /\ Len(warnings) = 2
    /\ timers = {} /\ fnRunning = {}

(***************************************************************************)
(* Claims about updateUserProgress, checked under SpecLedger.              *)
(***************************************************************************)
AllIdle == \A p \in Clients : uPc[p] = "idle"

StoredPoints == orDefault(dbPoints, 0)
StoredBadges == orDefault(dbBadges, <<>>)

\* The award of a classification event row: 20 for a recyclable event,
\* 5 otherwise.
AwardOfRow(row) == IF row.result = "Recyclable" THEN 20 ELSE 5

RECURSIVE SumAwards(_)
SumAwards(rows) ==
    IF rows = <<>> THEN 0 ELSE AwardOfRow(Head(rows)) + SumAwards(Tail(rows))

RecyclableRows ==
    Cardinality({k \in DOMAIN classifications : classifications[k].result = "Recyclable"})

NoBadgeAtStart == ~arrayIncludes(orDefault(initBadges, <<>>), "Eco-Warrior")

\* C1: when every store operation has succeeded and all calls have
\* completed, the stored points are the initial points plus the sum of the
\* awards of the inserted event rows, whatever the interleaving of the calls.
C1_NoLostUpdate ==
    (AllIdle /\ ~storeFailed) =>
        StoredPoints = orDefault(initPoints, 0) + SumAwards(classifications)

\* C2: the badge "Eco-Warrior" is flagged as newly awarded at most once for
\* the user, concurrent classifications included (stated here for the runs
\* in which no store operation fails).
C2_BadgeFlaggedAtMostOnce ==
    ~storeFailed => flagCount <= 1

\* C3: in a sequential run in which every store operation succeeds, for a
\* user who starts without the badge, a recyclable classification raises the
\* stored points by exactly 20 and leaves "Eco-Warrior" among the stored
\* badges; the first one flags the badge as newly awarded and the second one
\* does not flag it again.
C3_SequentialRecyclable ==
    (/\ ~overlapped
     /\ ~storeFailed
     /\ NoBadgeAtStart
     /\ AllIdle
     /\ lastCall.isRecyclable) =>
        /\ lastCall.after = lastCall.before + 20
        /\ StoredPoints = lastCall.after
        /\ lastCall.hasBadge
        /\ arrayIncludes(StoredBadges, "Eco-Warrior")
        /\ RecyclableRows = 1 =>
              /\ lastCall.flagged
              /\ flagCount = 1
              /\ \E p \in Clients : badgeNotification[p] = "Eco-Warrior"
        /\ RecyclableRows = 2 =>
              /\ ~lastCall.flagged
              /\ flagCount = 1

\* Two recyclable classifications, one after the other, have completed.
C3_Witness ==
    /\ ~overlapped
    /\ ~storeFailed
    /\ NoBadgeAtStart
    /\ AllIdle
    /\ Len(classifications) = 2
    /\ RecyclableRows = 2
    /\ lastCall.isRecyclable
    /\ ~lastCall.flagged
    /\ flagCount = 1
    /\ StoredPoints = orDefault(initPoints, 0) + 40
    /\ arrayIncludes(StoredBadges, "Eco-Warrior")

(***************************************************************************)
(* Claims about the classification endpoint, checked under SpecServer.     *)
(***************************************************************************)
\* The places query of the request succeeded with a results list.
PlacesSucceeded == sPc = "done" /\ placesResponse.kind = "results"

\* The places query of the request failed: it threw, or its response has
\* no results list.
PlacesFailed == sPc = "done" /\ placesResponse.kind \in {"throws", "noResults"}

\* C11: when the places query succeeds with n results, the facilities
\* returned are the first min(3, n) results in their order, each with the
\* name, the address and the rating of its result, the rating being "N/A"
\* only for a result that has no rating.
C11_FirstThreeFacilities ==
    PlacesSucceeded =>
        LET results == placesResponse.results
            n == Len(results)
            m == IF n < 3 THEN n ELSE 3
        IN  /\ Len(resBody.locations) = m
            /\ \A k \in 1..m :
                  /\ resBody.locations[k].name = results[k].name
                  /\ resBody.locations[k].address = results[k].vicinity
                  /\ resBody.locations[k].rating =
                        IF results[k].rating = Undefined THEN "N/A"
                        ELSE results[k].rating

\* C12: once label detection has succeeded, the request is answered 200
\* with the labels and the wasteType derived from them, whatever the places
\* query did; a failed places query yields the empty facility list and no
\* error.
C12_LookupFailureIsNotFatal ==
    (sPc = "done" /\ placesResponse # NoPlacesResponse) =>
        /\ resStatus = 200
        /\ resBody.error = ""
        /\ resBody.labels = lowerCased(visionDescriptions)
        /\ resBody.wasteType = classifyWasteType(lowerCased(visionDescriptions))
        /\ PlacesFailed => resBody.locations = <<>>

\* A request for a plastic bottle whose places query threw has been
\* answered 200, Recyclable, without facilities.
C12_Witness ==
    /\ sPc = "done"
    /\ placesResponse.kind = "throws"
    /\ visionDescriptions = <<"Plastic bottle">>
    /\ resStatus = 200
    /\ resBody.wasteType = "Recyclable"
    /\ resBody.locations = <<>>

\* C13: a POST with an image that yields the labels ["plastic bottle"], a
\* valid session and no location is answered 200 with category Recyclable
\* and no facilities, from which the client derives the instructions and
\* the tip of a recyclable.
C13_NoLocationSucceeds ==
    (/\ sPc = "done"
     /\ req.method = "POST"
     /\ req.imageBase64 # ""
     /\ req.userId # ""
     /\ req.authorization = ValidToken
     /\ ~req.userLocation.present
     /\ lowerCased(visionDescriptions) = <<"plastic bottle">>) =>
        /\ resStatus = 200
        /\ resBody.wasteType = "Recyclable"
        /\ resBody.locations = <<>>
        /\ getDisposalInstructions(resBody.wasteType) =
              "Clean and place in the recycling bin"
        /\ getWasteReductionTip(resBody.wasteType) =
              "Consider reusable alternatives"

\* C14: a POST with imageBase64 and userId but without the token of a valid
\* session is not answered 200 and gets no classification.
C14_NoSessionNoResult ==
    (/\ sPc = "done"
     /\ req.method = "POST"
     /\ req.imageBase64 # ""
     /\ req.userId # ""
     /\ req.authorization # ValidToken) =>
        /\ resStatus # 200
        /\ resBody.wasteType = ""

(***************************************************************************)
(* Claims about the WasteClassifier component, checked under SpecUi.       *)
(***************************************************************************)
\* The MIME type is none of image/jpeg, image/png, image/jpg, or the size
\* is above 5 MiB (5242880 bytes).
InvalidFile(file) ==
    \/ file.type \notin {"image/jpeg", "image/png", "image/jpg"}
    \/ file.size > 5242880

\* The states of the component.
Idle == image = "" /\ result = NoResult /\ ~loading

ImageSelected ==
    /\ image # ""
    /\ result = NoResult
    /\ error = ""
    /\ badgeNotification[uiClient] = ""
    /\ ~loading
    /\ flights = {}

\* The invocation f of handleClassify ends with this step.
Ends(f) == f \in flights /\ \A g \in flights' : g.id # f.id

\* C15: selecting a file of another type or above 5 MiB sets a validation
\* error, sends nothing, and leaves image, preview, result and badge
\* notification as they are; from Idle the component stays Idle.
C15_InvalidFileRejected ==
    [][\A file \in Files :
          (InvalidFile(file) /\ handleImageChange(file)) =>
              /\ error' # ""
              /\ fetchCalls' = fetchCalls
              /\ flights' = flights
              /\ image' = image
              /\ imagePreview' = imagePreview
              /\ result' = result
              /\ badgeNotification' = badgeNotification
              /\ Idle => Idle']_vars

\* An invalid file was picked with no image selected: the validation error
\* shows, the component is Idle and nothing was sent.
C15_Witness ==
    /\ Idle
    /\ error = "Image size must be less than 5MB."
    /\ imagePreview = ""
    /\ fetchCalls = 0
    /\ flights = {}

\* C16: when the classification has succeeded and updateUserProgress then
\* fails, the result stays as it is, the failure is shown as a warning
\* only, no error is set and loading returns to false.
C16_ProgressFailureIsNotFatal ==
    [][\A f \in flights :
          (f.pc = "progress" /\ Ends(f) /\ lastCall'.error # "") =>
              /\ result' = result
              /\ error' = error
              /\ ~loading']_vars

\* C17: when the classification call fails (no session, network failure,
\* answer not OK) the invocation ends with a non-empty error, no result,
\* loading false and the image untouched, and it has made no
\* updateUserProgress call.
C17_FailedClassification ==
    [][\A f \in flights :
          (f.pc \in {"getSession", "fetch"} /\ Ends(f)) =>
              /\ error' # ""
              /\ result' = NoResult
              /\ ~loading'
              /\ image' = image
              /\ imagePreview' = imagePreview
              /\ callsStarted' = f.callsBefore
              /\ uPc'[uiClient] = "idle"]_vars

\* A classification whose request was sent has failed on the network.
C17_Witness ==
    /\ error = "Failed to fetch"
    /\ image # ""
    /\ result = NoResult
    /\ ~loading
    /\ fetchCalls = 1
    /\ callsStarted = 0

\* C18: selecting a valid image in any state leaves the component in
\* ImageSelected with the new image: result, error and badge notification
\* cleared and no classification pending.
C18_ValidSelectionResets ==
    [][\A file \in Files :
          (~InvalidFile(file) /\ handleImageChange(file)) =>
              /\ image' = file.name
              /\ ImageSelected']_vars

\* C19: at most one invocation of handleClassify is in flight; one starts
\* only while loading is false; loading is true exactly while one is in
\* flight, the progress update included.
C19_SingleFlight ==
    /\ [](/\ Cardinality(flights) <= 1
          /\ loading <=> flights # {}
          /\ uPc[uiClient] # "idle" => loading /\ \E f \in flights : f.pc = "progress")
    /\ [][(\E g \in flights' : \A f \in flights : f.id # g.id) => ~loading /\ loading']_vars

\* The progress update of an invocation is awaited: loading is true and
\* two invocations have been started one after the other.
C19_Witness ==
    /\ loading
    /\ classifyStarted = 2
    /\ \E f \in flights : f.pc = "progress" /\ f.id = 2
    /\ uPc[uiClient] = "update"

(***************************************************************************)
(* Claim about the cancellation of the loser, checked under SpecRetry.     *)
(***************************************************************************)
\* The attempt k is the one whose race is awaited.
Racing(k) == rPc = "race" /\ k = loopI + 1

\* C20: once an attempt is decided its timer is not pending and its fn()
\* invocation is not running, so at most one fn() invocation is in flight.
C20_LoserCancelled ==
    /\ \A t \in timers : Racing(t.attempt)
    /\ \A k \in fnRunning : Racing(k)
    /\ Cardinality(fnRunning) <= 1

(***************************************************************************)
(* Claims about failing and concurrent calls of updateUserProgress,        *)
(* checked under SpecLedger.                                               *)
(***************************************************************************)
HasEcoWarrior(col) == arrayIncludes(orDefault(col, <<>>), "Eco-Warrior")

\* C21: in a sequential run in which store operations may fail, whenever
\* no call is in progress the stored points are the initial points plus the
\* sum of the awards of the event rows recorded: no event row is left
\* without its award and no award without its event row.
C21_FailedCallIsAtomic ==
    (AllIdle /\ ~overlapped) =>
        StoredPoints = orDefault(initPoints, 0) + SumAwards(classifications)

\* C22: once "Eco-Warrior" is among the stored badges no step removes it:
\* no call, completed or concurrent, recyclable or not, writes back a badge
\* array without it.
C22_BadgeNeverRemoved ==
    [][HasEcoWarrior(dbBadges) => HasEcoWarrior(dbBadges')]_vars

\* C23: whenever a component shows the badge notification "Eco-Warrior"
\* and no call is in progress, the badge is among the stored badges.
C23_NotificationImpliesStored ==
    \A p \in Clients :
        (AllIdle /\ badgeNotification[p] = "Eco-Warrior") => HasEcoWarrior(dbBadges)

(***************************************************************************)
(* Claims about a selection made during a classification and about the     *)
(* end of a classification, checked under SpecUi and SpecUiFair.           *)
(***************************************************************************)
\* C24: a result that is displayed was computed for the image that is
\* selected, and so was a badge notification set by the pending progress
\* update: the new image is never shown with what the previous image
\* produced.
C24_ResultOfCurrentImage ==
    /\ result # NoResult => resultOf = image
    /\ badgeNotification[uiClient] # "" =>
          \A f \in flights : f.pc = "progress" => f.image = image

\* The invocation numbered id of handleClassify has not finished.
InFlight(id) == \E f \in flights : f.id = id

\* Every invocation that passed the image check finishes.
EveryFlightEnds == \A id \in 1..MaxCalls : InFlight(id) ~> ~InFlight(id)

\* C25: every invocation of handleClassify finishes, and when it finishes
\* loading is false and a result or a non-empty error is set: for the click
\* without an image at once, for the others when the last awaited operation
\* has settled.
C25_EveryActionFinishes ==
    /\ EveryFlightEnds
    /\ [][/\ (handleClassify /\ image = "") => (~loading' /\ error' # "")
          /\ \A f \in flights :
                Ends(f) => (~loading' /\ (result' # NoResult \/ error' # ""))]_vars

====
